---- MODULE Spec2Model ----
(***************************************************************************)
(* Habit domain of Loop: the Habit base class, SoloHabit, GroupHabit, the  *)
(* HabitManager repository, HabitFactory, and the server's duration        *)
(* estimator with its POST /api/mood-task endpoint.                        *)
(*                                                                         *)
(* A calendar day ("YYYY-MM-DD") is the integer number of days since       *)
(* 1970-01-01, so that the lexicographic order of the strings is the order *)
(* of the integers.  A Date object is the integer number of hours since    *)
(* the epoch.  An optional argument is a sequence: <<>> when it is          *)
(* undefined, <<v>> when it is v.                                          *)
(***************************************************************************)
EXTENDS Integers, Sequences, FiniteSets, TLC

\* habits   : HabitManager.habits, a map from habit id to the habit's fields
\* nextId   : the next fresh habit id (generateId never repeats an id)
\* today    : the local calendar day, what getTodayString returns
\* now      : the clock, what `new Date()` returns; independent of today
\* tz       : the local timezone's offset from UTC in hours, fixed per run
\* last     : the call just made (see Call)
\* calls    : the number of calls counted against MaxCalls (Spec only)
\* resolved : the days finalizeDay resolved as completed (GroupSpec only)
\* out      : the value returned by the last call of a function that is not a
\*            HabitManager method (fromJSON, HabitFactory.create, the
\*            estimator, the mood-task endpoint); NoOutput otherwise
\* loads    : the number of times HabitManager.loadHabits has been called
VARIABLES habits, nextId, today, now, tz, last, calls, resolved, out, loads

vars == <<habits, nextId, today, now, tz, last, calls, resolved, out, loads>>

-----------------------------------------------------------------------------
(* Bounds of the model *)

\* number of habit ids the repository can hand out in one behaviour
NumIds == 4
\* last calendar day of the window the single-habit specification explores
MaxDay == 4
\* last value of the millisecond clock read by `new Date()`
MaxNow == 1
\* number of repository calls other than creations in one behaviour of Spec
MaxCalls == 2

\* the window starts on Sunday 1970-01-04 (day 3), so it crosses a Monday
Days == 3..MaxDay
Members == {"A", "B"}
\* local timezone offsets from UTC, in hours
TzOffsets == {-8, 0}

\* HabitManager.MAX_HABITS
MAX_HABITS == 3

-----------------------------------------------------------------------------
(* Arrays *)

ElemsOf(s) == {s[i] : i \in 1..Len(s)}

\* Array.prototype.includes
Includes(s, x) == x \in ElemsOf(s)

\* arr.filter((d) => d !== x)
FilterOut(s, x) == SelectSeq(s, LAMBDA d : d # x)

RECURSIVE InsertSorted(_, _)
InsertSorted(s, x) ==
  IF s = <<>> THEN <<x>>
  ELSE IF x <= Head(s) THEN <<x>> \o s
  ELSE <<Head(s)>> \o InsertSorted(Tail(s), x)

\* [...arr].sort() on zero-padded day strings
RECURSIVE SortDays(_)
SortDays(s) == IF s = <<>> THEN <<>> ELSE InsertSorted(SortDays(Tail(s)), Head(s))

NoDuplicates(s) == Cardinality(ElemsOf(s)) = Len(s)

-----------------------------------------------------------------------------
(* Dates *)

\* new Date("YYYY-MM-DD"): midnight UTC of that day
ParseDay(d) == 24 * d

\* Habit.formatDateLocal: the local calendar day of a Date, in timezone off
formatDateLocal(t, off) == (t + off) \div 24

\* date.setDate(date.getDate() + n)
AddDays(t, n) == t + 24 * n

\* Date.prototype.getDay in timezone off: 0 = Sunday; 1970-01-01 was a Thursday
GetDay(t, off) == (formatDateLocal(t, off) + 4) % 7

-----------------------------------------------------------------------------
(* Habit: streak and weekly progress *)

RECURSIVE StreakWalk(_, _, _, _, _, _)
StreakWalk(sortedDays, i, streak, expectedDate, td, off) ==
  IF i < 1 THEN streak
  ELSE
    LET currentDay == sortedDays[i]
        currentDate == ParseDay(currentDay)
    IN IF i = Len(sortedDays) /\ formatDateLocal(currentDate, off) = td
       THEN StreakWalk(sortedDays, i - 1, 1, AddDays(currentDate, -1), td, off)
       ELSE IF currentDay = formatDateLocal(expectedDate, off)
            THEN StreakWalk(sortedDays, i - 1, streak + 1, AddDays(expectedDate, -1), td, off)
            ELSE streak

\* Habit.updateStreak: the value assigned to currentStreak
StreakOf(completedDays, td, off) ==
  IF Len(completedDays) = 0 THEN 0
  ELSE LET sortedDays == SortDays(completedDays)
       IN StreakWalk(sortedDays, Len(sortedDays), 1, ParseDay(td), td, off)

\* updateStreak that counts every completed day, consecutive or not
updateStreak_CountsAll(h, td, off) ==
  [h EXCEPT !.currentStreak = Len(h.completedDays)]

\* Habit.updateStreak
updateStreak(h, td, off) ==
  [h EXCEPT !.currentStreak = StreakOf(h.completedDays, td, off)]

\* Habit.updateWeeklyProgress: the value assigned to daysPerWeekDone
WeekCompletionsOf(completedDays, td, off) ==
  LET todayDate == ParseDay(td)
      day == GetDay(todayDate, off)
      weekStart == AddDays(todayDate, (IF day = 0 THEN -6 ELSE 1) - day)
  IN Cardinality({i \in 0..6 :
        /\ \A j \in 0..i : ~(AddDays(weekStart, j) > todayDate)
        /\ Includes(completedDays, formatDateLocal(AddDays(weekStart, i), off))})

updateWeeklyProgress(h, td, off) ==
  [h EXCEPT !.daysPerWeekDone = WeekCompletionsOf(h.completedDays, td, off)]

-----------------------------------------------------------------------------
(* Habit: marking days *)

\* markDayAsCompleted without the includes() test
markDayAsCompleted_NoIncludesCheck(h, day, td, off, t) ==
  LET h1 == [h EXCEPT !.completedDays = Append(@, day)]
      h2 == updateWeeklyProgress(h1, td, off)
      h3 == updateStreak(h2, td, off)
  IN [h3 EXCEPT !.updatedAt = t]

\* markDayAsCompleted that recomputes and bumps updatedAt outside the if
markDayAsCompleted_AlwaysTouches(h, day, td, off, t) ==
  LET h1 == IF ~Includes(h.completedDays, day)
            THEN [h EXCEPT !.completedDays = Append(@, day)] ELSE h
      h2 == updateWeeklyProgress(h1, td, off)
      h3 == updateStreak(h2, td, off)
  IN [h3 EXCEPT !.updatedAt = t]

\* Habit.markDayAsCompleted
markDayAsCompleted(h, day, td, off, t) ==
  IF ~Includes(h.completedDays, day)
  THEN LET h1 == [h EXCEPT !.completedDays = Append(@, day)]
           h2 == updateWeeklyProgress(h1, td, off)
           h3 == updateStreak(h2, td, off)
       IN [h3 EXCEPT !.updatedAt = t]
  ELSE h

\* Habit.unmarkDayAsCompleted
unmarkDayAsCompleted(h, day, td, off, t) ==
  LET h1 == [h EXCEPT !.completedDays = FilterOut(@, day)]
      h2 == updateWeeklyProgress(h1, td, off)
      h3 == updateStreak(h2, td, off)
  IN [h3 EXCEPT !.updatedAt = t]

\* Habit.markAsCompleted: today's local day
markAsCompleted(h, td, off, t) == markDayAsCompleted(h, td, td, off, t)

\* Habit.unmarkAsCompleted
unmarkAsCompleted(h, td, off, t) == unmarkDayAsCompleted(h, td, td, off, t)

\* Habit.edit; action and goalDays are optional arguments
edit(h, action, goalDays, t) ==
  LET h1 == IF action # <<>> THEN [h EXCEPT !.action = action[1]] ELSE h
      h2 == IF goalDays # <<>> /\ goalDays[1] > 0
            THEN [h1 EXCEPT !.goalDays = goalDays[1]] ELSE h1
  IN [h2 EXCEPT !.updatedAt = t]

-----------------------------------------------------------------------------
(* Constructors *)

\* new SoloHabit(action, goalDays), the way HabitManager.createSoloHabit calls it
NewSoloHabit(id, action, goalDays, t) ==
  [type |-> "solo", id |-> id, action |-> action, goalDays |-> goalDays,
   createdAt |-> t, updatedAt |-> t, currentStreak |-> 0,
   completedDays |-> <<>>, daysPerWeekDone |-> 0, isActive |-> TRUE]

\* new GroupHabit(action, goalDays, phoneNumbers), the way
\* HabitManager.createGroupHabit calls it; the invite code is unique per habit
NewGroupHabit(id, action, goalDays, phoneNumbers, t) ==
  [type |-> "group", id |-> id, action |-> action, goalDays |-> goalDays,
   createdAt |-> t, updatedAt |-> t, currentStreak |-> 0,
   completedDays |-> <<>>, daysPerWeekDone |-> 0, isActive |-> TRUE,
   phoneNumbers |-> phoneNumbers, groupId |-> id,
   memberCompletedDays |-> [p \in ElemsOf(phoneNumbers) |-> <<>>],
   failedDays |-> <<>>]

\* habit instanceof GroupHabit
IsGroupHabit(h) == h.type = "group"

-----------------------------------------------------------------------------
(* GroupHabit *)

\* (this.memberCompletedDays[p] || [])
MemberDays(h, p) ==
  IF p \in DOMAIN h.memberCompletedDays THEN h.memberCompletedDays[p] ELSE <<>>

\* this.memberCompletedDays[p] = v
SetMemberDays(m, p, v) ==
  [q \in (DOMAIN m) \cup {p} |-> IF q = p THEN v ELSE m[q]]

\* delete this.memberCompletedDays[p]
DeleteMemberDays(m, p) == [q \in (DOMAIN m) \ {p} |-> m[q]]

\* GroupHabit.isGroupCompletedOn
isGroupCompletedOn(h, day) ==
  IF Len(h.phoneNumbers) = 0 THEN FALSE
  ELSE \A i \in 1..Len(h.phoneNumbers) : Includes(MemberDays(h, h.phoneNumbers[i]), day)

\* GroupHabit.addPhoneNumber
addPhoneNumber(h, phoneNumber, t) ==
  IF ~Includes(h.phoneNumbers, phoneNumber)
  THEN [h EXCEPT !.phoneNumbers = Append(@, phoneNumber),
                 !.memberCompletedDays =
                    IF phoneNumber \in DOMAIN @ THEN @
                    ELSE SetMemberDays(@, phoneNumber, <<>>),
                 !.updatedAt = t]
  ELSE h

\* GroupHabit.removePhoneNumber
removePhoneNumber(h, phoneNumber, t) ==
  [h EXCEPT !.phoneNumbers = FilterOut(@, phoneNumber),
            !.memberCompletedDays = DeleteMemberDays(@, phoneNumber),
            !.updatedAt = t]

\* the loop of GroupHabit.failGroupOn over this.phoneNumbers
RECURSIVE ClearMemberLogs(_, _, _, _)
ClearMemberLogs(m, phoneNumbers, i, day) ==
  IF i > Len(phoneNumbers) THEN m
  ELSE LET p == phoneNumbers[i]
           arr == IF p \in DOMAIN m THEN m[p] ELSE <<>>
       IN ClearMemberLogs(SetMemberDays(m, p, FilterOut(arr, day)), phoneNumbers, i + 1, day)

\* failGroupOn without the final `this.currentStreak = 0`
failGroupOn_NoStreakReset(h, day, td, off, t) ==
  LET h1 == IF ~Includes(h.failedDays, day)
            THEN [h EXCEPT !.failedDays = Append(@, day)] ELSE h
      h2 == [h1 EXCEPT !.memberCompletedDays = ClearMemberLogs(@, h1.phoneNumbers, 1, day)]
  IN unmarkDayAsCompleted(h2, day, td, off, t)

\* GroupHabit.failGroupOn
failGroupOn(h, day, td, off, t) ==
  LET h1 == IF ~Includes(h.failedDays, day)
            THEN [h EXCEPT !.failedDays = Append(@, day)] ELSE h
      h2 == [h1 EXCEPT !.memberCompletedDays = ClearMemberLogs(@, h1.phoneNumbers, 1, day)]
      h3 == unmarkDayAsCompleted(h2, day, td, off, t)
  IN [h3 EXCEPT !.currentStreak = 0]

\* finalizeDay without the completedDays.includes(day) test before recording
finalizeDay_NoIncludesTest(h, day, td, off, t) ==
  IF Includes(h.failedDays, day) THEN h
  ELSE IF ~isGroupCompletedOn(h, day)
       THEN [failGroupOn(h, day, td, off, t) EXCEPT !.updatedAt = t]
       ELSE [markDayAsCompleted_NoIncludesCheck(h, day, td, off, t) EXCEPT !.updatedAt = t]

\* GroupHabit.finalizeDay
finalizeDay(h, day, td, off, t) ==
  IF Includes(h.failedDays, day) THEN h
  ELSE IF ~isGroupCompletedOn(h, day)
       THEN [failGroupOn(h, day, td, off, t) EXCEPT !.updatedAt = t]
       ELSE LET h1 == IF ~Includes(h.completedDays, day)
                      THEN markDayAsCompleted(h, day, td, off, t) ELSE h
            IN [h1 EXCEPT !.updatedAt = t]

\* const day = dateStr || this.getTodayString()
DayOrToday(dateStr, td) == IF dateStr = <<>> THEN td ELSE dateStr[1]

\* markMemberCompleted without the membership test
markMemberCompletedThrows_Never(h, phoneNumber) == FALSE

\* GroupHabit.markMemberCompleted throws for a phone number that is no member
markMemberCompletedThrows(h, phoneNumber) == ~Includes(h.phoneNumbers, phoneNumber)

\* markMemberCompleted without the failedDays guard
markMemberCompleted_NoFailedLock(h, phoneNumber, dateStr, td, off, t) ==
  LET day == DayOrToday(dateStr, td)
      arr == MemberDays(h, phoneNumber)
      h1 == [h EXCEPT !.memberCompletedDays =
                SetMemberDays(@, phoneNumber,
                              IF ~Includes(arr, day) THEN Append(arr, day) ELSE arr)]
      h2 == IF isGroupCompletedOn(h1, day)
            THEN markDayAsCompleted(h1, day, td, off, t) ELSE h1
  IN [h2 EXCEPT !.updatedAt = t]

\* GroupHabit.markMemberCompleted, when it does not throw
markMemberCompleted(h, phoneNumber, dateStr, td, off, t) ==
  LET day == DayOrToday(dateStr, td)
  IN IF Includes(h.failedDays, day) THEN h
     ELSE LET arr == MemberDays(h, phoneNumber)
              h1 == [h EXCEPT !.memberCompletedDays =
                        SetMemberDays(@, phoneNumber,
                                      IF ~Includes(arr, day) THEN Append(arr, day) ELSE arr)]
              h2 == IF isGroupCompletedOn(h1, day)
                    THEN markDayAsCompleted(h1, day, td, off, t) ELSE h1
          IN [h2 EXCEPT !.updatedAt = t]

-----------------------------------------------------------------------------
(* HabitManager *)

\* the call just made: its name, arguments, result, and whether it reached
\* this.saveHabits()
Call(op, id, member, day, ret, saved) ==
  [op |-> op, id |-> id, member |-> member, day |-> day, ret |-> ret, saved |-> saved]

\* no function outside HabitManager has returned since the last call
NoOutput == [op |-> "none"]

\* this.habits.set(id, h)
SetHabit(hs, id, h) == [k \in (DOMAIN hs) \cup {id} |-> IF k = id THEN h ELSE hs[k]]

\* this.habits.delete(id)
DeleteKey(hs, id) == [k \in (DOMAIN hs) \ {id} |-> hs[k]]

\* getActiveHabits without the isActive filter
getActiveHabits_CountsInactive(hs) == DOMAIN hs

\* HabitManager.getActiveHabits, as the set of their ids
getActiveHabits(hs) == {k \in DOMAIN hs : hs[k].isActive}

\* isAtMaxHabits with > in place of >=
isAtMaxHabits_OffByOne(hs) == Cardinality(getActiveHabits(hs)) > MAX_HABITS

\* HabitManager.isAtMaxHabits
isAtMaxHabits(hs) == Cardinality(getActiveHabits(hs)) >= MAX_HABITS

\* the body shared by createSoloHabit and createGroupHabit
CreateWith(op, h) ==
  /\ IF isAtMaxHabits(habits)
     THEN /\ habits' = habits
          /\ nextId' = nextId
          /\ last' = Call(op, 0, "", <<>>, "null", FALSE)
     ELSE /\ nextId <= NumIds
          /\ habits' = SetHabit(habits, nextId, h)
          /\ nextId' = nextId + 1
          /\ last' = Call(op, nextId, "", <<>>, "habit", TRUE)
  /\ UNCHANGED <<today, now, tz>>

\* HabitManager.createSoloHabit
CreateSoloHabit(action, goalDays) ==
  CreateWith("createSoloHabit", NewSoloHabit(nextId, action, goalDays, now))

\* HabitManager.createGroupHabit
CreateGroupHabit(action, goalDays, phoneNumbers) ==
  CreateWith("createGroupHabit", NewGroupHabit(nextId, action, goalDays, phoneNumbers, now))

\* HabitManager.createHabit (legacy): return this.createSoloHabit(action, goalDays)
CreateHabit(action, goalDays) ==
  CreateWith("createHabit", NewSoloHabit(nextId, action, goalDays, now))

\* HabitManager.joinGroupHabitByCode
JoinGroupHabitByCode(groupCode, phoneNumber) ==
  LET found == {k \in DOMAIN habits : IsGroupHabit(habits[k]) /\ habits[k].groupId = groupCode}
  IN /\ IF found = {}
        THEN /\ habits' = habits
             /\ last' = Call("joinGroupHabitByCode", 0, phoneNumber, <<>>, "null", FALSE)
        ELSE LET k == CHOOSE x \in found : \A y \in found : x <= y
             IN /\ habits' = [habits EXCEPT ![k] = addPhoneNumber(@, phoneNumber, now)]
                /\ last' = Call("joinGroupHabitByCode", k, phoneNumber, <<>>, "habit", TRUE)
     /\ UNCHANGED <<nextId, today, now, tz>>

\* HabitManager.joinGroupHabitById
JoinGroupHabitById(habitId, phoneNumber) ==
  /\ IF habitId \in DOMAIN habits /\ IsGroupHabit(habits[habitId])
     THEN /\ habits' = [habits EXCEPT ![habitId] = addPhoneNumber(@, phoneNumber, now)]
          /\ last' = Call("joinGroupHabitById", habitId, phoneNumber, <<>>, "habit", TRUE)
     ELSE /\ habits' = habits
          /\ last' = Call("joinGroupHabitById", habitId, phoneNumber, <<>>, "null", FALSE)
  /\ UNCHANGED <<nextId, today, now, tz>>

\* HabitManager.markGroupMemberCompleted
MarkGroupMemberCompleted(habitId, phoneNumber, dateStr) ==
  /\ IF habitId \in DOMAIN habits /\ IsGroupHabit(habits[habitId])
     THEN IF markMemberCompletedThrows(habits[habitId], phoneNumber)
          THEN /\ habits' = habits
               /\ last' = Call("markGroupMemberCompleted", habitId, phoneNumber, dateStr,
                               "throws", FALSE)
          ELSE /\ habits' = [habits EXCEPT ![habitId] =
                               markMemberCompleted(@, phoneNumber, dateStr, today, tz, now)]
               /\ last' = Call("markGroupMemberCompleted", habitId, phoneNumber, dateStr,
                               "habit", TRUE)
     ELSE /\ habits' = habits
          /\ last' = Call("markGroupMemberCompleted", habitId, phoneNumber, dateStr,
                          "null", FALSE)
  /\ UNCHANGED <<nextId, today, now, tz>>

\* finalizeGroupHabitsForDay without the habit.isActive test
FinalizeGroupHabitsForDay_IgnoresActive(day) ==
  /\ habits' = [k \in DOMAIN habits |->
                  IF IsGroupHabit(habits[k])
                  THEN finalizeDay(habits[k], day, today, tz, now)
                  ELSE habits[k]]
  /\ last' = Call("finalizeGroupHabitsForDay", 0, "", <<day>>, "void", TRUE)
  /\ UNCHANGED <<nextId, today, now, tz>>

\* HabitManager.finalizeGroupHabitsForDay
FinalizeGroupHabitsForDay(day) ==
  /\ habits' = [k \in DOMAIN habits |->
                  IF IsGroupHabit(habits[k]) /\ habits[k].isActive
                  THEN finalizeDay(habits[k], day, today, tz, now)
                  ELSE habits[k]]
  /\ last' = Call("finalizeGroupHabitsForDay", 0, "", <<day>>, "void", TRUE)
  /\ UNCHANGED <<nextId, today, now, tz>>

\* HabitManager.updateHabit
UpdateHabit(id, action, goalDays) ==
  /\ IF id \in DOMAIN habits
     THEN /\ habits' = [habits EXCEPT ![id] = edit(@, action, goalDays, now)]
          /\ last' = Call("updateHabit", id, "", <<>>, "habit", TRUE)
     ELSE /\ habits' = habits
          /\ last' = Call("updateHabit", id, "", <<>>, "undefined", FALSE)
  /\ UNCHANGED <<nextId, today, now, tz>>

\* deleteHabit without its call of this.saveHabits()
DeleteHabit_NoSave(id) ==
  /\ IF id \in DOMAIN habits
     THEN /\ habits' = [habits EXCEPT ![id].isActive = FALSE, ![id].updatedAt = now]
          /\ last' = Call("deleteHabit", id, "", <<>>, "true", FALSE)
     ELSE /\ habits' = habits
          /\ last' = Call("deleteHabit", id, "", <<>>, "false", FALSE)
  /\ UNCHANGED <<nextId, today, now, tz>>

\* HabitManager.deleteHabit (soft delete)
DeleteHabit(id) ==
  /\ IF id \in DOMAIN habits
     THEN /\ habits' = [habits EXCEPT ![id].isActive = FALSE, ![id].updatedAt = now]
          /\ last' = Call("deleteHabit", id, "", <<>>, "true", TRUE)
     ELSE /\ habits' = habits
          /\ last' = Call("deleteHabit", id, "", <<>>, "false", FALSE)
  /\ UNCHANGED <<nextId, today, now, tz>>

\* HabitManager.removeHabitPermanently
RemoveHabitPermanently(id) ==
  /\ IF id \in DOMAIN habits
     THEN /\ habits' = DeleteKey(habits, id)
          /\ last' = Call("removeHabitPermanently", id, "", <<>>, "true", TRUE)
     ELSE /\ habits' = habits
          /\ last' = Call("removeHabitPermanently", id, "", <<>>, "false", FALSE)
  /\ UNCHANGED <<nextId, today, now, tz>>

\* HabitManager.markHabitAsCompleted
MarkHabitAsCompleted(id) ==
  /\ IF id \in DOMAIN habits
     THEN /\ habits' = [habits EXCEPT ![id] = markAsCompleted(@, today, tz, now)]
          /\ last' = Call("markHabitAsCompleted", id, "", <<>>, "habit", TRUE)
     ELSE /\ habits' = habits
          /\ last' = Call("markHabitAsCompleted", id, "", <<>>, "undefined", FALSE)
  /\ UNCHANGED <<nextId, today, now, tz>>

\* HabitManager.unmarkHabitAsCompleted
UnmarkHabitAsCompleted(id) ==
  /\ IF id \in DOMAIN habits
     THEN /\ habits' = [habits EXCEPT ![id] = unmarkAsCompleted(@, today, tz, now)]
          /\ last' = Call("unmarkHabitAsCompleted", id, "", <<>>, "habit", TRUE)
     ELSE /\ habits' = habits
          /\ last' = Call("unmarkHabitAsCompleted", id, "", <<>>, "undefined", FALSE)
  /\ UNCHANGED <<nextId, today, now, tz>>

\* HabitManager.clearAll
ClearAll ==
  /\ habits' = [k \in {} |-> k]
  /\ last' = Call("clearAll", 0, "", <<>>, "void", TRUE)
  /\ UNCHANGED <<nextId, today, now, tz>>

\* GroupHabit.removePhoneNumber, called on the object HabitManager.getHabit returns
RemovePhoneNumber(id, phoneNumber) ==
  /\ id \in DOMAIN habits
  /\ IsGroupHabit(habits[id])
  /\ habits' = [habits EXCEPT ![id] = removePhoneNumber(@, phoneNumber, now)]
  /\ last' = Call("removePhoneNumber", id, phoneNumber, <<>>, "void", FALSE)
  /\ UNCHANGED <<nextId, today, now, tz>>

-----------------------------------------------------------------------------
(* Environment *)

\* local midnight passes
AdvanceDay ==
  /\ today < MaxDay
  /\ today' = today + 1
  /\ UNCHANGED <<habits, nextId, now, tz, last>>

\* the millisecond clock advances
Tick ==
  /\ now < MaxNow
  /\ now' = now + 1
  /\ UNCHANGED <<habits, nextId, today, tz, last>>

-----------------------------------------------------------------------------
(* Inputs *)

\* the member lists a group is created with
PhoneLists == {<<>>, <<"A">>, <<"A", "B">>}
\* the days a call names: today or yesterday, inside the window
RecentDays == {d \in Days : today - 1 <= d /\ d <= today}
\* the optional dateStr argument: omitted (today) or yesterday
DateArgs == {<<>>} \cup {<<d>> : d \in RecentDays \ {today}}
\* the optional goalDays argument of updateHabit
GoalArgs == {<<0>>, <<2>>}

-----------------------------------------------------------------------------
(* Spec: the repository, from its construction *)

Init ==
  /\ habits = <<>>
  /\ nextId = 1
  /\ today = 3
  /\ now = 0
  /\ tz = 0
  /\ last = Call("constructor", 0, "", <<>>, "void", FALSE)
  /\ calls = 0
  /\ resolved = {}
  /\ out = NoOutput
  /\ loads = 1

\* a repository call other than a creation, counted against MaxCalls
Counted(A) == calls < MaxCalls /\ A /\ calls' = calls + 1 /\ UNCHANGED <<resolved, out, loads>>

\* the ids a call names: every habit of the collection, and one unknown id
CallIds == (DOMAIN habits) \cup {nextId}

Next ==
  \/ CreateSoloHabit("run", 1) /\ UNCHANGED <<calls, resolved, out, loads>>
  \/ \E ps \in {<<>>, <<"A">>} : CreateGroupHabit("run", 1, ps) /\ UNCHANGED <<calls, resolved, out, loads>>
  \/ CreateHabit("run", 1) /\ UNCHANGED <<calls, resolved, out, loads>>
  \/ \E c \in CallIds : Counted(JoinGroupHabitByCode(c, "A"))
  \/ \E id \in CallIds : Counted(JoinGroupHabitById(id, "A"))
  \/ \E id \in CallIds : Counted(MarkGroupMemberCompleted(id, "A", <<>>))
  \/ Counted(FinalizeGroupHabitsForDay(today))
  \/ \E id \in CallIds, g \in GoalArgs : Counted(UpdateHabit(id, <<>>, g))
  \/ \E id \in CallIds : Counted(DeleteHabit(id))
  \/ \E id \in CallIds : Counted(RemoveHabitPermanently(id))
  \/ \E id \in CallIds : Counted(MarkHabitAsCompleted(id))
  \/ \E id \in CallIds : Counted(UnmarkHabitAsCompleted(id))
  \/ Counted(ClearAll)

Spec == Init /\ [][Next]_vars

-----------------------------------------------------------------------------
(* HabitSpec: one habit of the repository, solo or group, over several days *)

HabitInit ==
  /\ \/ habits = SetHabit(<<>>, 1, NewSoloHabit(1, "run", 2, 0))
        /\ last = Call("createSoloHabit", 1, "", <<>>, "habit", TRUE)
     \/ \E ps \in PhoneLists :
           /\ habits = SetHabit(<<>>, 1, NewGroupHabit(1, "run", 2, ps, 0))
           /\ last = Call("createGroupHabit", 1, "", <<>>, "habit", TRUE)
  /\ nextId = 2
  /\ today = 3
  /\ now = 0
  /\ tz \in TzOffsets
  /\ calls = 0
  /\ resolved = {}
  /\ out = NoOutput
  /\ loads = 1

HabitNext ==
  \/ MarkHabitAsCompleted(1) /\ UNCHANGED <<calls, resolved, out, loads>>
  \/ UnmarkHabitAsCompleted(1) /\ UNCHANGED <<calls, resolved, out, loads>>
  \/ \E p \in Members, d \in DateArgs :
       MarkGroupMemberCompleted(1, p, d) /\ UNCHANGED <<calls, resolved, out, loads>>
  \/ \E d \in RecentDays : FinalizeGroupHabitsForDay(d) /\ UNCHANGED <<calls, resolved, out, loads>>
  \/ \E p \in Members : JoinGroupHabitById(1, p) /\ UNCHANGED <<calls, resolved, out, loads>>
  \/ \E p \in Members : RemovePhoneNumber(1, p) /\ UNCHANGED <<calls, resolved, out, loads>>
  \/ AdvanceDay /\ UNCHANGED <<calls, resolved, out, loads>>
  \/ Tick /\ UNCHANGED <<calls, resolved, out, loads>>

HabitSpec == HabitInit /\ [][HabitNext]_vars

-----------------------------------------------------------------------------
(* GroupSpec: one GroupHabit under its member operations and finalizeDay *)

\* History: the (group, day) pairs that a finalizeDay call of this behaviour
\* left completed and not failed.
ResolvedBy(day) ==
  {<<k, day>> : k \in {x \in DOMAIN habits :
                         /\ IsGroupHabit(habits[x]) /\ habits[x].isActive
                         /\ Includes(habits'[x].completedDays, day)
                         /\ ~Includes(habits'[x].failedDays, day)}}

GroupInit ==
  /\ \E ps \in PhoneLists : habits = SetHabit(<<>>, 1, NewGroupHabit(1, "run", 2, ps, 0))
  /\ last = Call("createGroupHabit", 1, "", <<>>, "habit", TRUE)
  /\ nextId = 2
  /\ today = 3
  /\ now = 0
  /\ tz \in TzOffsets
  /\ calls = 0
  /\ resolved = {}
  /\ out = NoOutput
  /\ loads = 1

GroupNext ==
  \/ \E p \in Members, d \in DateArgs :
       MarkGroupMemberCompleted(1, p, d) /\ UNCHANGED <<calls, resolved, out, loads>>
  \/ \E d \in RecentDays :
       FinalizeGroupHabitsForDay(d) /\ resolved' = resolved \cup ResolvedBy(d)
                                    /\ UNCHANGED <<calls, out, loads>>
  \/ \E p \in Members : JoinGroupHabitById(1, p) /\ UNCHANGED <<calls, resolved, out, loads>>
  \/ \E p \in Members : RemovePhoneNumber(1, p) /\ UNCHANGED <<calls, resolved, out, loads>>
  \/ AdvanceDay /\ UNCHANGED <<calls, resolved, out, loads>>

GroupSpec == GroupInit /\ [][GroupNext]_vars

-----------------------------------------------------------------------------
(* Properties *)

\* a step that is a call on the repository or on a habit: the environment
\* steps change today or now, the calls never do
IsCallStep == today' = today /\ now' = now

GroupIds(hs) == {k \in DOMAIN hs : IsGroupHabit(hs[k])}

ActiveCount(hs) == Cardinality({k \in DOMAIN hs : hs[k].isActive})

CreateOps == {"createSoloHabit", "createGroupHabit", "createHabit"}

\* C1: no day is both in failedDays and in the group's own completedDays,
\* in any state reachable by entity and repository operations.
C1_FailedAndCompletedDisjoint ==
  \A k \in GroupIds(habits) :
    ElemsOf(habits[k].failedDays) \cap ElemsOf(habits[k].completedDays) = {}

\* C2: a day in failedDays stays in failedDays, and markMemberCompleted(m, D)
\* by a current member m for a failed day D changes nothing of the group.
C2_FailedDayIsLocked ==
  [][\A k \in GroupIds(habits) : \A d \in ElemsOf(habits[k].failedDays) :
       /\ k \in DOMAIN habits' => Includes(habits'[k].failedDays, d)
       /\ ( /\ IsCallStep
            /\ last'.op = "markGroupMemberCompleted"
            /\ last'.id = k
            /\ DayOrToday(last'.day, today) = d
            /\ Includes(habits[k].phoneNumbers, last'.member) )
          => /\ last'.ret = "habit"
             /\ habits'[k] = habits[k]]_vars

\* C2 witness: a current member has just checked in for a failed day, at a
\* clock value later than the group's updatedAt.
C2_Witness ==
  /\ 1 \in GroupIds(habits)
  /\ last.op = "markGroupMemberCompleted" /\ last.ret = "habit"
  /\ last.day # <<>> /\ Includes(habits[1].failedDays, last.day[1])
  /\ Includes(habits[1].phoneNumbers, last.member)
  /\ Len(habits[1].phoneNumbers) = 2
  /\ now > habits[1].updatedAt

\* C3: a day is in a group's completedDays only when every current member's
\* per-member record contains it.
C3_CompletedOnlyWhenAllMembersDid ==
  \A k \in GroupIds(habits) : \A d \in ElemsOf(habits[k].completedDays) :
    \A p \in ElemsOf(habits[k].phoneNumbers) : Includes(MemberDays(habits[k], p), d)

\* C4: after markMemberCompleted(m, D) on a group of two or more members with
\* D not failed, D is out of completedDays and isGroupCompletedOn(D) is false
\* while some current member has not checked in for D, and D is in
\* completedDays once every current member has.
C4_AllOrNothing ==
  [][\A k \in GroupIds(habits) :
       ( /\ IsCallStep
         /\ last'.op = "markGroupMemberCompleted"
         /\ last'.id = k
         /\ last'.ret = "habit"
         /\ Len(habits[k].phoneNumbers) >= 2
         /\ ~Includes(habits[k].failedDays, DayOrToday(last'.day, today)) )
       => LET D == DayOrToday(last'.day, today)
              g == habits'[k]
          IN IF \E p \in ElemsOf(g.phoneNumbers) : ~Includes(MemberDays(g, p), D)
             THEN ~isGroupCompletedOn(g, D) /\ ~Includes(g.completedDays, D)
             ELSE Includes(g.completedDays, D)]_vars

\* C5: finalizeDay(D) on a group where D is not failed and not every current
\* member has checked in for D puts D into failedDays, takes D out of
\* completedDays and out of every current member's record, and leaves
\* currentStreak at 0.
C5_FinalizeFails ==
  [][\A k \in GroupIds(habits) :
       ( /\ IsCallStep
         /\ last'.op = "finalizeGroupHabitsForDay"
         /\ habits[k].isActive
         /\ ~Includes(habits[k].failedDays, last'.day[1])
         /\ ~isGroupCompletedOn(habits[k], last'.day[1]) )
       => LET D == last'.day[1]
              g == habits'[k]
          IN /\ Includes(g.failedDays, D)
             /\ ~Includes(g.completedDays, D)
             /\ \A p \in ElemsOf(g.phoneNumbers) : ~Includes(MemberDays(g, p), D)
             /\ g.currentStreak = 0]_vars

\* C5 witness: finalizeDay has failed a day of a two-member group that has
\* another day completed, so that the streak recomputed from completedDays
\* is positive while currentStreak is 0.
C5_Witness ==
  /\ 1 \in GroupIds(habits)
  /\ last.op = "finalizeGroupHabitsForDay"
  /\ Includes(habits[1].failedDays, last.day[1])
  /\ Len(habits[1].phoneNumbers) = 2
  /\ habits[1].completedDays # <<>>
  /\ StreakOf(habits[1].completedDays, today, tz) > 0
  /\ habits[1].currentStreak = 0

\* C6: a day that finalizeDay resolved as completed stays in completedDays
\* and out of failedDays under any later addMember, removeMember,
\* markMemberCompleted and finalizeDay.
C6_CompletedIsTerminal ==
  \A r \in resolved :
    r[1] \in DOMAIN habits =>
      /\ Includes(habits[r[1]].completedDays, r[2])
      /\ ~Includes(habits[r[1]].failedDays, r[2])

\* C7: the number of active habits never exceeds 3, and a create call made
\* while 3 habits are active returns null and leaves the collection unchanged.
C7_AtMostThreeActive ==
  /\ [](ActiveCount(habits) <= 3)
  /\ [][(last'.op \in CreateOps /\ ActiveCount(habits) = 3)
          => (last'.ret = "null" /\ habits' = habits)]_vars

\* C7 witness: a create call has returned null with three habits active and
\* a fourth, soft-deleted habit in the collection.
C7_Witness ==
  /\ last.op \in CreateOps /\ last.ret = "null"
  /\ ActiveCount(habits) = 3
  /\ Cardinality(DOMAIN habits) = 4

\* C8: a create call fails with null when three habits are active, and
\* succeeds whenever fewer are, in particular right after one of three
\* active habits was soft-deleted or hard-deleted.
C8_CreateAfterDelete ==
  [][last'.op \in CreateOps =>
       IF ActiveCount(habits) >= 3
       THEN last'.ret = "null"
       ELSE /\ last'.ret = "habit"
            /\ last'.id \notin DOMAIN habits
            /\ last'.id \in DOMAIN habits'
            /\ habits'[last'.id].isActive
            /\ ActiveCount(habits') = ActiveCount(habits) + 1]_vars

\* C8 witness: a create call has succeeded as the fourth creation, with a
\* soft-deleted habit still in the collection.
C8_Witness ==
  /\ last.op \in CreateOps /\ last.ret = "habit" /\ last.id = 4
  /\ ActiveCount(habits) = 3
  /\ \E k \in DOMAIN habits : ~habits[k].isActive

\* C9: completedDays of a habit created through the repository never holds a
\* day twice.
C9_NoDuplicateDays ==
  \A k \in DOMAIN habits : NoDuplicates(habits[k].completedDays)

\* C9 witness: today has been marked on a habit that holds two completed days.
C9_Witness ==
  /\ last.op = "markHabitAsCompleted" /\ last.ret = "habit"
  /\ Includes(habits[1].completedDays, today)
  /\ Len(habits[1].completedDays) = 2

\* C10: marking a day that is already in completedDays changes nothing of the
\* habit: completedDays, currentStreak, daysPerWeekDone and updatedAt keep
\* their values.
C10_RemarkIsNoOp ==
  [][\A k \in DOMAIN habits :
       ( /\ IsCallStep
         /\ last'.op = "markHabitAsCompleted"
         /\ last'.id = k
         /\ Includes(habits[k].completedDays, today) )
       => habits'[k] = habits[k]]_vars

\* C10 witness: today was marked again on a habit whose currentStreak is not
\* what a recomputation would give, at a clock value later than updatedAt.
C10_Witness ==
  /\ last.op = "markHabitAsCompleted" /\ last.id = 1
  /\ Includes(habits[1].completedDays, today)
  /\ habits[1].currentStreak # StreakOf(habits[1].completedDays, today, tz)
  /\ now > habits[1].updatedAt

-----------------------------------------------------------------------------
(* CalendarSpec: one SoloHabit marked and unmarked day by day over more than a
   week, in a zone west of UTC and in UTC *)

\* the last day of the calendar window: day 4 is Monday 1970-01-05, day 11
\* the Monday after
LastDay == 11

\* the local day changes, inside the calendar window
CalendarAdvanceDay ==
  /\ today < LastDay
  /\ today' = today + 1
  /\ UNCHANGED <<habits, nextId, now, tz, last>>

CalendarInit ==
  /\ habits = SetHabit(<<>>, 1, NewSoloHabit(1, "run", 2, 0))
  /\ last = Call("createSoloHabit", 1, "", <<>>, "habit", TRUE)
  /\ nextId = 2
  /\ today = 3
  /\ now = 0
  /\ tz \in TzOffsets
  /\ calls = 0
  /\ resolved = {}
  /\ out = NoOutput
  /\ loads = 1

CalendarNext ==
  \/ MarkHabitAsCompleted(1) /\ UNCHANGED <<calls, resolved, out, loads>>
  \/ UnmarkHabitAsCompleted(1) /\ UNCHANGED <<calls, resolved, out, loads>>
  \/ CalendarAdvanceDay /\ UNCHANGED <<calls, resolved, out, loads>>

CalendarSpec == CalendarInit /\ [][CalendarNext]_vars

\* the latest day of a non-empty list of days
LatestDay(s) == CHOOSE d \in ElemsOf(s) : \A e \in ElemsOf(s) : e <= d

\* the number of consecutive calendar days ending at d that are all in S
RECURSIVE RunEndingAt(_, _)
RunEndingAt(S, d) == IF d \in S THEN 1 + RunEndingAt(S, d - 1) ELSE 0

\* a mark or unmark of today on habit 1 that recomputed the streak and the
\* weekly progress
Recomputed ==
  /\ IsCallStep
  /\ last'.id = 1
  /\ \/ last'.op = "unmarkHabitAsCompleted"
     \/ last'.op = "markHabitAsCompleted" /\ ~Includes(habits[1].completedDays, today)

\* C11: when the latest day in completedDays is today, the currentStreak a
\* mark or unmark computes is the number of consecutive calendar days ending
\* at today that are all in completedDays (3 for {D, D-1, D-2}, 1 for {D, D-2}).
C11_StreakEndingToday ==
  [][( /\ Recomputed
       /\ habits'[1].completedDays # <<>>
       /\ LatestDay(habits'[1].completedDays) = today )
     => habits'[1].currentStreak = RunEndingAt(ElemsOf(habits'[1].completedDays), today)]_vars

\* C12: when the latest day in completedDays is earlier than today, the
\* currentStreak a mark or unmark computes is the length of the run of
\* consecutive calendar days ending at that latest day (2 for exactly
\* {yesterday, the day before yesterday}).
C12_StreakEndingAtLatest ==
  [][( /\ Recomputed
       /\ habits'[1].completedDays # <<>>
       /\ LatestDay(habits'[1].completedDays) < today )
     => habits'[1].currentStreak =
          RunEndingAt(ElemsOf(habits'[1].completedDays),
                      LatestDay(habits'[1].completedDays))]_vars

\* the Monday of the week of day d (day 4 is a Monday)
MondayOf(d) == d - ((d + 3) % 7)

\* C13: with weeks starting on Monday, the daysPerWeekDone a mark or unmark
\* computes counts exactly the days from this week's Monday up to and
\* including today that are in completedDays (3 after the Friday mark of a
\* week marked on Monday, Wednesday and Friday), never days of another week.
C13_WeeklyProgress ==
  [][Recomputed
     => habits'[1].daysPerWeekDone =
          Cardinality({d \in ElemsOf(habits'[1].completedDays) :
                         MondayOf(today) <= d /\ d <= today})]_vars

-----------------------------------------------------------------------------
(* Serialization: toJSON, fromJSON, HabitFactory *)

\* a Date held by a HabitData object
DateValue(t) == [kind |-> "Date", t |-> t]

\* JSON.stringify of a Date: its ISO string, exact to the clock's resolution
toISOString(d) == [kind |-> "string", t |-> d.t]

\* fromJSON: typeof x === "string" ? new Date(x) : x
DateOf(x) == IF x.kind = "string" THEN x.t ELSE x.t

\* data.f is not undefined
Has(data, f) == f \in DOMAIN data

\* SoloHabit.toJSON: no type, no group fields
SoloHabit_toJSON(h) ==
  [id |-> h.id, action |-> h.action, goalDays |-> h.goalDays,
   createdAt |-> DateValue(h.createdAt), updatedAt |-> DateValue(h.updatedAt),
   currentStreak |-> h.currentStreak, completedDays |-> h.completedDays,
   daysPerWeekDone |-> h.daysPerWeekDone, isActive |-> h.isActive]

\* GroupHabit.toJSON
GroupHabit_toJSON(h) ==
  [type |-> "group",
   id |-> h.id, action |-> h.action, goalDays |-> h.goalDays,
   createdAt |-> DateValue(h.createdAt), updatedAt |-> DateValue(h.updatedAt),
   currentStreak |-> h.currentStreak, completedDays |-> h.completedDays,
   daysPerWeekDone |-> h.daysPerWeekDone, isActive |-> h.isActive,
   phoneNumbers |-> h.phoneNumbers, groupId |-> h.groupId,
   memberCompletedDays |-> h.memberCompletedDays, failedDays |-> h.failedDays]

\* habit.toJSON(), dispatched on the habit's class
toJSON(h) == IF IsGroupHabit(h) THEN GroupHabit_toJSON(h) ELSE SoloHabit_toJSON(h)

\* JSON.parse(JSON.stringify(data)): the Dates come back as ISO strings
ThroughText(data) ==
  [data EXCEPT !.createdAt = toISOString(@), !.updatedAt = toISOString(@)]

\* GroupHabit.fromJSON with `data.isActive || true` in place of `?? true`
GroupHabit_fromJSON_ActiveOr(data, fresh) ==
  LET phoneNumbers == IF Has(data, "phoneNumbers") THEN data.phoneNumbers ELSE <<>>
      given == IF Has(data, "memberCompletedDays") THEN data.memberCompletedDays
               ELSE [p \in {} |-> <<>>]
  IN [type |-> "group", id |-> data.id, action |-> data.action,
      goalDays |-> data.goalDays,
      createdAt |-> DateOf(data.createdAt), updatedAt |-> DateOf(data.updatedAt),
      currentStreak |-> IF data.currentStreak = 0 THEN 0 ELSE data.currentStreak,
      completedDays |-> data.completedDays,
      daysPerWeekDone |-> IF data.daysPerWeekDone = 0 THEN 0 ELSE data.daysPerWeekDone,
      isActive |-> TRUE,
      phoneNumbers |-> phoneNumbers,
      groupId |-> IF Has(data, "groupId") THEN data.groupId ELSE fresh,
      memberCompletedDays |->
        [q \in (DOMAIN given) \cup ElemsOf(phoneNumbers) |->
           IF q \in DOMAIN given THEN given[q] ELSE <<>>],
      failedDays |-> IF Has(data, "failedDays") THEN data.failedDays ELSE <<>>]

\* GroupHabit.fromJSON and the constructor it calls; fresh is the code that
\* generateGroupCode would return
GroupHabit_fromJSON(data, fresh) ==
  LET phoneNumbers == IF Has(data, "phoneNumbers") THEN data.phoneNumbers ELSE <<>>
      given == IF Has(data, "memberCompletedDays") THEN data.memberCompletedDays
               ELSE [p \in {} |-> <<>>]
  IN [type |-> "group", id |-> data.id, action |-> data.action,
      goalDays |-> data.goalDays,
      createdAt |-> DateOf(data.createdAt), updatedAt |-> DateOf(data.updatedAt),
      currentStreak |-> IF data.currentStreak = 0 THEN 0 ELSE data.currentStreak,
      completedDays |-> data.completedDays,
      daysPerWeekDone |-> IF data.daysPerWeekDone = 0 THEN 0 ELSE data.daysPerWeekDone,
      isActive |-> IF Has(data, "isActive") THEN data.isActive ELSE TRUE,
      phoneNumbers |-> phoneNumbers,
      groupId |-> IF Has(data, "groupId") THEN data.groupId ELSE fresh,
      memberCompletedDays |->
        [q \in (DOMAIN given) \cup ElemsOf(phoneNumbers) |->
           IF q \in DOMAIN given THEN given[q] ELSE <<>>],
      failedDays |-> IF Has(data, "failedDays") THEN data.failedDays ELSE <<>>]

\* SoloHabit.fromJSON
SoloHabit_fromJSON(data) ==
  [type |-> "solo", id |-> data.id, action |-> data.action,
   goalDays |-> data.goalDays,
   createdAt |-> DateOf(data.createdAt), updatedAt |-> DateOf(data.updatedAt),
   currentStreak |-> data.currentStreak, completedDays |-> data.completedDays,
   daysPerWeekDone |-> data.daysPerWeekDone, isActive |-> data.isActive]

\* HabitFactory.create
HabitFactory_create(data, fresh) ==
  IF Has(data, "phoneNumbers") /\ Len(data.phoneNumbers) > 0
  THEN GroupHabit_fromJSON(data, fresh)
  ELSE SoloHabit_fromJSON(data)

\* Habit.getProgress: Math.min(completedDays.length / goalDays * 100, 100) as
\* the fraction <<numerator, denominator>>
getProgress(h) ==
  IF Len(h.completedDays) * 100 >= 100 * h.goalDays
  THEN <<100, 1>>
  ELSE <<Len(h.completedDays) * 100, h.goalDays>>

\* the data handed to fromJSON: the object toJSON returned, or its JSON text
\* parsed back
Transports == {"object", "text"}
Transported(data, how) == IF how = "text" THEN ThroughText(data) ELSE data

\* GroupHabit.fromJSON(g.toJSON()) for the group held under id
GroupRoundTrip(id, how) ==
  /\ id \in DOMAIN habits
  /\ IsGroupHabit(habits[id])
  /\ out' = [op |-> "GroupHabit.fromJSON", input |-> habits[id],
             habit |-> GroupHabit_fromJSON(Transported(toJSON(habits[id]), how), nextId)]
  /\ UNCHANGED <<habits, nextId, today, now, tz, last, calls, resolved, loads>>

\* HabitFactory.create(h.toJSON()) for the habit held under id
FactoryRoundTrip(id, how) ==
  /\ id \in DOMAIN habits
  /\ out' = [op |-> "HabitFactory.create", input |-> habits[id],
             habit |-> HabitFactory_create(Transported(toJSON(habits[id]), how), nextId)]
  /\ UNCHANGED <<habits, nextId, today, now, tz, last, calls, resolved, loads>>

(* JsonSpec: one habit under the repository's calls, serialized and rebuilt
   at any moment *)

JsonInit == HabitInit

JsonNext ==
  \/ MarkHabitAsCompleted(1) /\ out' = NoOutput /\ UNCHANGED <<calls, resolved, loads>>
  \/ \E p \in Members :
       MarkGroupMemberCompleted(1, p, <<>>) /\ out' = NoOutput /\ UNCHANGED <<calls, resolved, loads>>
  \/ \E d \in RecentDays :
       FinalizeGroupHabitsForDay(d) /\ out' = NoOutput /\ UNCHANGED <<calls, resolved, loads>>
  \/ \E p \in Members :
       RemovePhoneNumber(1, p) /\ out' = NoOutput /\ UNCHANGED <<calls, resolved, loads>>
  \/ DeleteHabit(1) /\ out' = NoOutput /\ UNCHANGED <<calls, resolved, loads>>
  \/ AdvanceDay /\ out' = NoOutput /\ UNCHANGED <<calls, resolved, loads>>
  \/ Tick /\ out' = NoOutput /\ UNCHANGED <<calls, resolved, loads>>
  \/ \E how \in Transports : GroupRoundTrip(1, how)
  \/ \E how \in Transports : FactoryRoundTrip(1, how)

JsonSpec == JsonInit /\ [][JsonNext]_vars

\* C14: for every reachable GroupHabit g, GroupHabit.fromJSON(g.toJSON()) has
\* the same id, action, goalDays, currentStreak, completedDays,
\* daysPerWeekDone, isActive, members, groupId, memberCompletedDays and
\* failedDays as g, and isGroupCompletedOn(D) for every day D and
\* getProgress() return what they return on g.
C14_GroupRoundTrip ==
  out.op = "GroupHabit.fromJSON" =>
    LET g == out.input
        r == out.habit
    IN /\ r.type = "group"
       /\ r.id = g.id
       /\ r.action = g.action
       /\ r.goalDays = g.goalDays
       /\ r.currentStreak = g.currentStreak
       /\ r.completedDays = g.completedDays
       /\ r.daysPerWeekDone = g.daysPerWeekDone
       /\ r.isActive = g.isActive
       /\ r.phoneNumbers = g.phoneNumbers
       /\ r.groupId = g.groupId
       /\ r.memberCompletedDays = g.memberCompletedDays
       /\ r.failedDays = g.failedDays
       /\ \A D \in Days : isGroupCompletedOn(r, D) = isGroupCompletedOn(g, D)
       /\ getProgress(r) = getProgress(g)

\* C14 witness: a soft-deleted group with a failed day, a member check-in on
\* record and an updatedAt later than createdAt has been rebuilt from the
\* JSON text of its toJSON.
C14_Witness ==
  /\ out.op = "GroupHabit.fromJSON"
  /\ out.input.failedDays # <<>>
  /\ \E p \in ElemsOf(out.input.phoneNumbers) : MemberDays(out.input, p) # <<>>
  /\ ~out.input.isActive
  /\ out.input.updatedAt > out.input.createdAt
  /\ out.habit.updatedAt = out.input.updatedAt
  /\ \E D \in Days : isGroupCompletedOn(out.habit, D)

\* C15: the variant-dispatching deserializer (HabitFactory.create) rebuilds a
\* serialized habit as the variant its type discriminator names, whatever
\* its member list: a GroupHabit with zero members comes back as a
\* GroupHabit, not as a SoloHabit.
C15_DiscriminatorHasPriority ==
  out.op = "HabitFactory.create" =>
    out.habit.type = (IF IsGroupHabit(out.input) THEN "group" ELSE "solo")

\* C16: markMemberCompleted(m, D) with m not a current member of the group
\* raises an error and leaves the group unchanged (member records,
\* completedDays, failedDays, currentStreak, updatedAt), also through the
\* repository's markGroupMemberCompleted.
C16_NonMemberRaises ==
  [][\A k \in GroupIds(habits) :
       ( /\ IsCallStep
         /\ last'.op = "markGroupMemberCompleted"
         /\ last'.id = k
         /\ ~Includes(habits[k].phoneNumbers, last'.member) )
       => /\ last'.ret = "throws"
          /\ ~last'.saved
          /\ habits' = habits]_vars

\* C16 witness: a phone number that is no member has just tried to check in
\* on a group that has a member, for a day that is not failed, at a clock
\* value later than the group's updatedAt.
C16_Witness ==
  /\ 1 \in GroupIds(habits)
  /\ last.op = "markGroupMemberCompleted" /\ last.ret = "throws"
  /\ ~Includes(habits[1].phoneNumbers, last.member)
  /\ habits[1].phoneNumbers # <<>>
  /\ ~Includes(habits[1].failedDays, DayOrToday(last.day, today))
  /\ now > habits[1].updatedAt

-----------------------------------------------------------------------------
(* Duration estimator (server): computeAutopilotETA

   A multiplier is an integer number of hundredths (0.9 is 90).  Scores and
   positions, sums of products of two such numbers, are integer numbers of
   ten-thousandths.  The source computes in IEEE doubles; over all 1728
   combinations of the five multipliers the doubles give the difficulty,
   range and day count of the exact decimal arithmetic, except where the
   exact difficulty score is 0.20: there the double sum is just below 0.2. *)

BASE_DAYS == 66

\* the upper-case letters and their lower-case forms
LowerOf ==
  [c \in {"A", "B", "C", "D", "E", "F", "G", "H", "I", "J", "K", "L", "M", "N",
          "O", "P", "Q", "R", "S", "T", "U", "V", "W", "X", "Y", "Z"} |->
     CASE c = "A" -> "a" [] c = "B" -> "b" [] c = "C" -> "c" [] c = "D" -> "d"
       [] c = "E" -> "e" [] c = "F" -> "f" [] c = "G" -> "g" [] c = "H" -> "h"
       [] c = "I" -> "i" [] c = "J" -> "j" [] c = "K" -> "k" [] c = "L" -> "l"
       [] c = "M" -> "m" [] c = "N" -> "n" [] c = "O" -> "o" [] c = "P" -> "p"
       [] c = "Q" -> "q" [] c = "R" -> "r" [] c = "S" -> "s" [] c = "T" -> "t"
       [] c = "U" -> "u" [] c = "V" -> "v" [] c = "W" -> "w" [] c = "X" -> "x"
       [] c = "Y" -> "y" [] c = "Z" -> "z"]

\* the lower-case form of one character
LowerChar(c) == IF c \in DOMAIN LowerOf THEN LowerOf[c] ELSE c

\* String.prototype.toLowerCase
RECURSIVE toLowerCase(_)
toLowerCase(s) ==
  IF Len(s) = 0 THEN s
  ELSE LowerChar(SubSeq(s, 1, 1)) \o toLowerCase(SubSeq(s, 2, Len(s)))

\* t.match(/k1|k2|.../): some keyword occurs in t
Matches(t, keywords) ==
  \E s \in {t} : \E k \in keywords :
    \E i \in 1..(Len(s) - Len(k) + 1) : SubSeq(s, i, i + Len(k) - 1) = k

\* clamp without Math.min: only the lower bound is enforced
clamp_LowerOnly(n, lo, hi) == IF lo > n THEN lo ELSE n

\* clamp(n, lo, hi)
clamp(n, lo, hi) ==
  LET m == IF hi < n THEN hi ELSE n
  IN IF lo > m THEN lo ELSE m

\* Math.round replaced by Math.floor
roundInt_Floor(n) == n \div 10000

\* roundInt: Math.round of a non-negative number of ten-thousandths
roundInt(n) == (n + 5000) \div 10000

\* Math.max(0, m - 1) for a multiplier m in hundredths
Excess(m) == IF m - 100 > 0 THEN m - 100 ELSE 0

complexityMultiplier(habit) ==
  LET t == toLowerCase(habit)
  IN IF Matches(t, {"drink water", "water", "vitamin", "take meds", "stretch",
                    "journal", "gratitude", "floss"})
     THEN 90
     ELSE LET s1 == IF Matches(t, {"gym", "workout", "run", "cardio", "training",
                                   "lift", "yoga class"}) THEN 18 ELSE 0
              s2 == IF Matches(t, {"meal prep", "cook", "clean house", "deep clean",
                                   "laundry", "vacuum"}) THEN 16 ELSE 0
              s3 == IF Matches(t, {"study", "revise", "homework", "assignment",
                                   "coding", "project", "practice piano",
                                   "practice guitar"}) THEN 14 ELSE 0
          IN clamp(100 + s1 + s2 + s3, 85, 135)

valenceMultiplier(habit) ==
  LET t == toLowerCase(habit)
  IN IF Matches(t, {"cold plunge", "ice bath", "laundry", "fold", "vacuum", "tax",
                    "budget", "declutter"}) THEN 118
     ELSE IF Matches(t, {"gym", "workout", "run", "study", "coding", "practice"}) THEN 108
     ELSE IF Matches(t, {"walk", "read", "journal", "gratitude", "meditate", "music",
                         "water"}) THEN 95
     ELSE 102

environmentFrictionMultiplier(habit) ==
  LET t == toLowerCase(habit)
  IN IF Matches(t, {"gym", "pool", "swim", "class", "commute", "drive", "go to"}) THEN 122
     ELSE IF Matches(t, {"meal prep", "cook", "vacuum", "clean", "laundry"}) THEN 115
     ELSE IF Matches(t, {"journal", "meditate", "stretch", "water", "read"}) THEN 95
     ELSE 105

\* the optional argument is <<>> (undefined) or <<value>>
contextStabilityMultiplier(contextStability) ==
  IF contextStability = <<"stable">> THEN 98
  ELSE IF contextStability = <<"chaotic">> THEN 118
  ELSE IF contextStability = <<"mixed">> THEN 108
  ELSE 108

\* a whyMultiplier whose default depends on the time of the call
whyMultiplier_ByClock(whyType) ==
  IF whyType = <<"identity">> THEN 98
  ELSE IF whyType = <<"outcome">> THEN 112
  ELSE IF whyType = <<"mixed">> THEN 105
  ELSE 106 + now

whyMultiplier(whyType) ==
  IF whyType = <<"identity">> THEN 98
  ELSE IF whyType = <<"outcome">> THEN 112
  ELSE IF whyType = <<"mixed">> THEN 105
  ELSE 106

rangeForDifficulty(d) ==
  IF d = "tiny" THEN <<18, 30>>
  ELSE IF d = "normal" THEN <<30, 66>>
  ELSE <<66, 120>>

\* the difficulty score, in ten-thousandths
DifficultyScore(m) ==
  Excess(m.complexity) * 40 + Excess(m.emotionalValence) * 20
  + Excess(m.environmentalFriction) * 25 + Excess(m.contextStability) * 10
  + Excess(m.whyFactor) * 15

\* the double sum of a score that is exactly 0.20 is below 0.2
pickHabitDifficultyFromMetrics(m) ==
  IF DifficultyScore(m) < 600 THEN "tiny"
  ELSE IF DifficultyScore(m) <= 2000 THEN "normal"
  ELSE "stretch"

\* the position inside the range before clamping, in ten-thousandths
RawPosition(m) ==
  5000 + (m.complexity - 100) * 35 + (m.emotionalValence - 100) * 25
  + (m.environmentalFriction - 100) * 25 + (m.contextStability - 100) * 20
  + (m.whyFactor - 100) * 20

\* clamp(BASE_DAYS * mComplexity * frictionComposite, 18, 120) as the pair
\* <<millionths, the remaining ten-thousandths of a millionth>>;
\* frictionComposite fc is a number of hundred-millionths
RawEta(mComplexity, fc) ==
  LET k == BASE_DAYS * mComplexity
      low == k * (fc % 10000)
      micro == k * (fc \div 10000) + low \div 10000
      rest == low % 10000
  IN IF micro >= 120000000 THEN <<120000000, 0>>
     ELSE IF micro < 18000000 THEN <<18000000, 0>>
     ELSE <<micro, rest>>

\* args = [habitAction, contextStability, whyType]
computeAutopilotETA(args) ==
  LET mComplexity == complexityMultiplier(args.habitAction)
      mValence == valenceMultiplier(args.habitAction)
      mEnv == environmentFrictionMultiplier(args.habitAction)
      mContext == contextStabilityMultiplier(args.contextStability)
      mWhy == whyMultiplier(args.whyType)
      frictionComposite == mValence * mEnv * mContext * mWhy
      metrics == [complexity |-> mComplexity, emotionalValence |-> mValence,
                  environmentalFriction |-> mEnv, contextStability |-> mContext,
                  whyFactor |-> mWhy]
      difficulty == pickHabitDifficultyFromMetrics(metrics)
      recommendedRange == rangeForDifficulty(difficulty)
      lo == recommendedRange[1]
      hi == recommendedRange[2]
      position == clamp(RawPosition(metrics), 2500, 7500)
      recommendedDays == clamp(roundInt(lo * 10000 + (hi - lo) * position), lo, hi)
  IN [recommendedDays |-> recommendedDays,
      recommendedRange |-> recommendedRange,
      difficulty |-> difficulty,
      breakdown |-> [baseDays |-> BASE_DAYS,
                     complexity |-> mComplexity,
                     emotionalValence |-> mValence,
                     environmentalFriction |-> mEnv,
                     contextStability |-> mContext,
                     whyFactor |-> mWhy,
                     frictionComposite |-> frictionComposite,
                     rawEta |-> RawEta(mComplexity, frictionComposite),
                     position |-> position]]

\* the habit texts, and the optional settings, the estimator is called with
HabitActions == {"drink water", "Drink Water", "cold plunge"}
ContextArgs == {<<>>, <<"stable">>, <<"chaotic">>}
WhyArgs == {<<>>, <<"identity">>, <<"mixed">>}
EstimatorArgs ==
  [habitAction : HabitActions, contextStability : ContextArgs, whyType : WhyArgs]

\* one call of computeAutopilotETA; first remembers the arguments and the
\* result of the first call of the behaviour
Estimate(args) ==
  /\ LET result == computeAutopilotETA(args)
     IN out' = [op |-> "computeAutopilotETA", args |-> args, result |-> result,
                first |-> IF out.op = "computeAutopilotETA" THEN out.first
                          ELSE [args |-> args, result |-> result]]
  /\ UNCHANGED <<habits, nextId, today, now, tz, last, calls, resolved, loads>>

(* EstimatorSpec: the estimator called again and again while the clock runs
   and the repository changes *)

EstimatorInit == Init

EstimatorNext ==
  \/ \E args \in EstimatorArgs : Estimate(args)
  \/ Counted(CreateSoloHabit("run", 1))
  \/ Tick /\ UNCHANGED <<calls, resolved, out, loads>>

EstimatorSpec == EstimatorInit /\ [][EstimatorNext]_vars

DefaultArgs(text) == [habitAction |-> text, contextStability |-> <<>>, whyType |-> <<>>]

\* "cold plunge" with the default settings is stretch, or has a
\* recommendedDays strictly greater than "drink water" (estimated first)
ColdPlungeAboveDrinkWater ==
  ( /\ out.op = "computeAutopilotETA"
    /\ out.args = DefaultArgs("cold plunge")
    /\ out.first.args = DefaultArgs("drink water") )
  => \/ out.result.difficulty = "stretch"
     \/ out.result.recommendedDays > out.first.result.recommendedDays

\* C19 as stated: with the default settings "cold plunge" is stretch or
\* strictly above "drink water", and "drink water" is tiny with a
\* recommendedDays at or near the floor 18 of the range 18-30 (nearer to the
\* floor than to the ceiling).
C19_DrinkWaterNearFloor ==
  /\ ColdPlungeAboveDrinkWater
  /\ (out.op = "computeAutopilotETA" /\ out.args = DefaultArgs("drink water"))
     => /\ out.result.difficulty = "tiny"
        /\ out.result.recommendedRange = <<18, 30>>
        /\ out.result.recommendedDays - 18 < 30 - out.result.recommendedDays

\* C19 amended: with the default settings "cold plunge" is stretch or
\* strictly above "drink water", and "drink water" is tiny with a
\* recommendedDays of 24, the middle of the range 18-30.
C19_DrinkWaterMidRange ==
  /\ ColdPlungeAboveDrinkWater
  /\ (out.op = "computeAutopilotETA" /\ out.args = DefaultArgs("drink water"))
     => /\ out.result.difficulty = "tiny"
        /\ out.result.recommendedRange = <<18, 30>>
        /\ out.result.recommendedDays = 24

\* C19 witness: "cold plunge" has been estimated after "drink water", both
\* with the default settings, and is not stretch.
C19_Witness ==
  /\ out.op = "computeAutopilotETA"
  /\ out.args = DefaultArgs("cold plunge")
  /\ out.first.args = DefaultArgs("drink water")
  /\ out.first.result.difficulty = "tiny"
  /\ out.result.difficulty = "normal"
  /\ out.result.recommendedDays = 51

-----------------------------------------------------------------------------
(* POST /api/mood-task

   A JSON value is a record tagged with its type: undefined (the property is
   absent), a string, a number or an array. *)

Undef == [t |-> "undefined"]
Str(s) == [t |-> "string", v |-> s]
Num(n) == [t |-> "number", v |-> n]
Arr(a) == [t |-> "array", v |-> a]

\* !x is false
Truthy(x) ==
  /\ x.t # "undefined"
  /\ x.t = "string" => x.v # ""
  /\ x.t = "number" => x.v # 0

\* the lock skipped: the reply's own values stay
EnforceLocked_Skip(parsed, calc) == parsed

\* parsed.difficulty = calc.difficulty; parsed.recommendedRange = ...;
\* parsed.recommendedDays = ...
EnforceLocked(parsed, calc) ==
  [parsed EXCEPT !.difficulty = Str(calc.difficulty),
                 !.recommendedRange = Arr(<<Num(calc.recommendedRange[1]),
                                            Num(calc.recommendedRange[2])>>),
                 !.recommendedDays = Num(calc.recommendedDays)]

\* the validation's condition: the shape is bad
BadShape(parsed) ==
  \/ ~Truthy(parsed.modifiedTask)
  \/ parsed.modifiedTask.t # "string"
  \/ ~Truthy(parsed.why)
  \/ parsed.why.t # "string"
  \/ parsed.tips.t # "array"
  \/ Len(parsed.tips.v) # 3
  \/ ~(parsed.difficulty \in {Str("tiny"), Str("normal"), Str("stretch")})
  \/ parsed.recommendedDays.t # "number"
  \/ parsed.recommendedRange.t # "array"
  \/ Len(parsed.recommendedRange.v) # 2
  \/ parsed.recommendedRange.v[1].t # "number"
  \/ parsed.recommendedRange.v[2].t # "number"
  \/ parsed.researchNote.t # "string"
  \/ parsed.daysWhy.t # "string"

\* the handler up to the fetch: 400 without moodTag or habitAction, 500
\* without the API key, else the estimate to send along
BeforeFetch(req, apiKey) ==
  IF req.moodTag \in {<<>>, <<"">>} \/ req.habitAction \in {<<>>, <<"">>}
  THEN [status |-> 400, body |-> [error |-> "Missing moodTag or habitAction"]]
  ELSE IF ~apiKey
  THEN [status |-> 500, body |-> [error |-> "Missing OPENROUTER_API_KEY in server/.env"]]
  ELSE [status |-> 0,
        calc |-> computeAutopilotETA([habitAction |-> req.habitAction[1],
                                      contextStability |-> req.contextStability,
                                      whyType |-> req.whyType])]

\* the handler after the fetch; upstream is what the fetch gave:
\* [kind |-> "throws"], [kind |-> "error", status |-> s] (resp.ok false),
\* [kind |-> "nocontent"], [kind |-> "text"] (content that is no JSON),
\* [kind |-> "null"] (content parsing to null: the lock's assignment throws),
\* [kind |-> "object", parsed |-> the object the content parses to]
AfterFetch(calc, upstream) ==
  CASE upstream.kind = "throws" ->
         [status |-> 500, body |-> [error |-> "fetch failed"]]
    [] upstream.kind = "error" ->
         [status |-> upstream.status, body |-> [error |-> "OpenRouter error"]]
    [] upstream.kind = "nocontent" ->
         [status |-> 500, body |-> [error |-> "No model content returned"]]
    [] upstream.kind = "text" ->
         [status |-> 500, body |-> [error |-> "Model did not return valid JSON"]]
    [] upstream.kind = "null" ->
         [status |-> 500, body |-> [error |-> "TypeError"]]
    [] upstream.kind = "object" ->
         LET parsed == EnforceLocked(upstream.parsed, calc)
         IN IF BadShape(parsed)
            THEN [status |-> 500, body |-> [error |-> "Bad JSON shape from model",
                                            raw |-> parsed]]
            ELSE [status |-> 200, body |-> parsed]

\* the requests
MoodRequests ==
  [moodTag : {<<>>, <<"stressed">>, <<"energized">>},
   habitAction : {<<>>, <<"">>, <<"Drink Water">>, <<"cold plunge">>},
   contextStability : {<<>>, <<"chaotic">>},
   whyType : {<<>>, <<"outcome">>}]

\* a reply of the right shape whose locked fields are wrong
ShapedReply ==
  [modifiedTask |-> Str("task"), difficulty |-> Str("stretch"),
   tips |-> Arr(<<Str("a"), Str("b"), Str("c")>>), why |-> Str("why"),
   recommendedDays |-> Num(999), recommendedRange |-> Arr(<<Num(1), Num(2)>>),
   researchNote |-> Str(""), daysWhy |-> Str("because")]

\* the values a reply's property takes
ReplyValues ==
  {Undef, Str(""), Str("tiny"), Str("bogus"), Num(0), Num(7), Arr(<<>>),
   Arr(<<Str("a"), Str("b")>>), Arr(<<Num(18), Num(30)>>), Arr(<<Str("1"), Num(2)>>)}

\* the objects the model's content parses to: the shaped reply with up to
\* one property replaced
ParsedReplies ==
  {ShapedReply} \cup
  {[ShapedReply EXCEPT ![f] = v] : f \in DOMAIN ShapedReply, v \in ReplyValues}

Upstreams ==
  {[kind |-> "throws"], [kind |-> "error", status |-> 429], [kind |-> "nocontent"],
   [kind |-> "text"], [kind |-> "null"]}
  \cup {[kind |-> "object", parsed |-> p] : p \in ParsedReplies}

\* a request arrives while none is in flight; it is answered at once (400,
\* 500) or the handler awaits the fetch
ReceiveMoodTask(req, apiKey) ==
  /\ IF out.op = "POST /api/mood-task" THEN out.phase = "responded" ELSE TRUE
  /\ LET r == BeforeFetch(req, apiKey)
     IN out' = IF r.status = 0
               THEN [op |-> "POST /api/mood-task", phase |-> "awaiting", req |-> req,
                     calc |-> r.calc]
               ELSE [op |-> "POST /api/mood-task", phase |-> "responded", req |-> req,
                     upstream |-> [kind |-> "none"], status |-> r.status,
                     body |-> r.body]
  /\ UNCHANGED <<habits, nextId, today, now, tz, last, calls, resolved, loads>>

\* the fetch settles and the handler responds
RespondMoodTask(upstream) ==
  /\ out.op = "POST /api/mood-task"
  /\ out.phase = "awaiting"
  /\ LET r == AfterFetch(out.calc, upstream)
     IN out' = [op |-> "POST /api/mood-task", phase |-> "responded", req |-> out.req,
                upstream |-> upstream, status |-> r.status, body |-> r.body]
  /\ UNCHANGED <<habits, nextId, today, now, tz, last, calls, resolved, loads>>

(* MoodTaskSpec: the server answering one request after another *)

MoodTaskInit == Init

MoodTaskNext ==
  \/ \E req \in MoodRequests, apiKey \in BOOLEAN : ReceiveMoodTask(req, apiKey)
  \/ \E upstream \in Upstreams : RespondMoodTask(upstream)

MoodTaskSpec == MoodTaskInit /\ [][MoodTaskNext]_vars

\* C17: every HTTP 200 response of POST /api/mood-task carries the
\* difficulty, recommendedRange and recommendedDays that computeAutopilotETA
\* returns for the request's habitAction, contextStability and whyType,
\* whatever the language model's reply held for them and whatever the
\* request's moodTag.
C17_LockedFields ==
  ( /\ out.op = "POST /api/mood-task"
    /\ out.phase = "responded"
    /\ out.status = 200 )
  => LET calc == computeAutopilotETA([habitAction |-> out.req.habitAction[1],
                                      contextStability |-> out.req.contextStability,
                                      whyType |-> out.req.whyType])
     IN /\ out.body.difficulty = Str(calc.difficulty)
        /\ out.body.recommendedRange = Arr(<<Num(calc.recommendedRange[1]),
                                             Num(calc.recommendedRange[2])>>)
        /\ out.body.recommendedDays = Num(calc.recommendedDays)

\* C17 witness: a 200 response to a request whose reply carried a difficulty,
\* a range and a day count of the right types and other than the estimator's.
C17_Witness ==
  /\ out.op = "POST /api/mood-task"
  /\ out.phase = "responded"
  /\ out.status = 200
  /\ out.upstream.parsed.difficulty = Str("stretch")
  /\ out.upstream.parsed.recommendedDays = Num(999)
  /\ out.upstream.parsed.recommendedRange = Arr(<<Num(1), Num(2)>>)
  /\ out.body.difficulty = Str("tiny")
  /\ out.req.moodTag = <<"energized">>

-----------------------------------------------------------------------------
(* EditSpec: habits created with any goalDays and edited, through the
   repository and on the habit itself *)

\* habit.edit(action, goalDays) called on the habit object itself
EditHabit(id, action, goalDays) ==
  /\ id \in DOMAIN habits
  /\ habits' = [habits EXCEPT ![id] = edit(@, action, goalDays, now)]
  /\ last' = Call("edit", id, "", <<>>, "void", FALSE)
  /\ UNCHANGED <<nextId, today, now, tz>>

\* the goalDays a habit is created with, and the optional arguments of an edit
CreateGoals == {0, 2}
EditActionArgs == {<<>>, <<"walk">>}
EditGoalArgs == {<<>>, <<-1>>, <<0>>, <<3>>}

EditInit == Init

EditNext ==
  \/ \E g \in CreateGoals : CreateSoloHabit("run", g) /\ UNCHANGED <<calls, resolved, out, loads>>
  \/ \E id \in CallIds, a \in EditActionArgs, g \in EditGoalArgs :
       Counted(UpdateHabit(id, a, g))
  \/ \E id \in DOMAIN habits, a \in EditActionArgs, g \in EditGoalArgs :
       Counted(EditHabit(id, a, g))
  \/ Tick /\ UNCHANGED <<calls, resolved, out, loads>>

EditSpec == EditInit /\ [][EditNext]_vars

\* C20: for every habit the repository can create, goalDays is a positive
\* integer after any successful edit (Habit.edit or HabitManager.updateHabit),
\* whichever fields the edit supplies, and an edit whose newGoalDays is 0 or
\* negative leaves goalDays unchanged and raises no error.
C20_GoalDaysPositive ==
  [][\A k \in DOMAIN habits : \A a \in EditActionArgs, g \in EditGoalArgs :
       (UpdateHabit(k, a, g) \/ EditHabit(k, a, g))
       => /\ habits'[k].goalDays \in Nat \ {0}
          /\ (g # <<>> /\ g[1] <= 0)
             => /\ habits'[k].goalDays = habits[k].goalDays
                /\ last'.ret \in {"habit", "void"}]_vars

-----------------------------------------------------------------------------
(* Persistence hooks *)

\* the HabitManager methods that can change the collection or a habit in it
RepositoryOps ==
  {"createSoloHabit", "createGroupHabit", "createHabit", "joinGroupHabitByCode",
   "joinGroupHabitById", "markGroupMemberCompleted", "finalizeGroupHabitsForDay",
   "updateHabit", "deleteHabit", "removeHabitPermanently", "markHabitAsCompleted",
   "unmarkHabitAsCompleted", "clearAll"}

\* C21: every repository call that changes the collection or a habit in it
\* reaches this.saveHabits() before it returns, and loadHabits has been called
\* exactly once, by the constructor.
C21_SavesEveryChange ==
  /\ [][(IsCallStep /\ habits' # habits) =>
          (last'.op \in RepositoryOps /\ last'.saved)]_vars
  /\ [](loads = 1)

\* a soft delete has changed a habit and saved
C21_Witness ==
  /\ last.op = "deleteHabit" /\ last.saved
  /\ last.id \in DOMAIN habits /\ ~habits[last.id].isActive
  /\ loads = 1

-----------------------------------------------------------------------------
(* finalizeDay *)

\* C22: right after finalizeDay(D) returns, D is in exactly one of
\* completedDays and failedDays: in completedDays when every current member
\* (at least one) had checked in for D and D was not failed before, in
\* failedDays otherwise.
C22_FinalizeResolvesDay ==
  [][\A k \in GroupIds(habits) :
       ( /\ IsCallStep
         /\ last'.op = "finalizeGroupHabitsForDay"
         /\ habits[k].isActive )
       => LET D == last'.day[1]
              h == habits[k]
              g == habits'[k]
              allIn == /\ Len(h.phoneNumbers) >= 1
                       /\ \A p \in ElemsOf(h.phoneNumbers) : Includes(MemberDays(h, p), D)
              completes == allIn /\ ~Includes(h.failedDays, D)
          IN /\ Includes(g.completedDays, D) <=> completes
             /\ Includes(g.failedDays, D) <=> ~completes]_vars

\* C23: a group with no members has isGroupCompletedOn(D) false for every D,
\* and finalizeDay(D) on it leaves D in failedDays and out of completedDays,
\* whatever completedDays held before.
C23_EmptyGroupFails ==
  /\ [](\A k \in GroupIds(habits) :
          Len(habits[k].phoneNumbers) = 0 =>
            \A D \in Days : ~isGroupCompletedOn(habits[k], D))
  /\ [][\A k \in GroupIds(habits) :
          ( /\ IsCallStep
            /\ last'.op = "finalizeGroupHabitsForDay"
            /\ habits[k].isActive
            /\ Len(habits[k].phoneNumbers) = 0 )
          => /\ Includes(habits'[k].failedDays, last'.day[1])
             /\ ~Includes(habits'[k].completedDays, last'.day[1])]_vars

-----------------------------------------------------------------------------
(* FinalizeSpec: one GroupHabit, with `calls` counting the finalizeDay calls
   made in a row for the same day (0 after any other call, at most 2) *)

\* a call other than finalizeGroupHabitsForDay ends the run of finalizeDay calls
EndsRun(A) == A /\ calls' = 0 /\ UNCHANGED <<resolved, out, loads>>

\* finalizeGroupHabitsForDay(day), counted when it repeats the call before it
RepeatFinalize(day) ==
  /\ FinalizeGroupHabitsForDay(day)
  /\ calls' = IF last.op = "finalizeGroupHabitsForDay" /\ last.day = <<day>>
              THEN 2 ELSE 1
  /\ UNCHANGED <<resolved, out, loads>>

FinalizeInit == GroupInit

FinalizeNext ==
  \/ \E p \in Members, d \in DateArgs : EndsRun(MarkGroupMemberCompleted(1, p, d))
  \/ EndsRun(MarkHabitAsCompleted(1))
  \/ \E p \in Members : EndsRun(RemovePhoneNumber(1, p))
  \/ \E d \in RecentDays : RepeatFinalize(d)
  \/ AdvanceDay /\ UNCHANGED <<calls, resolved, out, loads>>
  \/ Tick /\ UNCHANGED <<calls, resolved, out, loads>>

FinalizeSpec == FinalizeInit /\ [][FinalizeNext]_vars

\* the fields of a group that C24 speaks of
CompletionState(h) ==
  <<h.completedDays, h.failedDays, h.memberCompletedDays, h.currentStreak>>

\* C24: a finalizeDay(D) call that follows a finalizeDay(D) call leaves
\* completedDays, failedDays, the per-member records and currentStreak as the
\* first call left them, whether D resolved as failed or as completed.
C24_FinalizeIdempotent ==
  [][(IsCallStep /\ last'.op = "finalizeGroupHabitsForDay" /\ calls' = 2)
       => \A k \in GroupIds(habits) :
            CompletionState(habits'[k]) = CompletionState(habits[k])]_vars

\* finalizeDay(D) has run twice in a row on a two-member group where D
\* resolved as completed, the second time at a later clock value
C24_Witness ==
  /\ calls = 2
  /\ last.op = "finalizeGroupHabitsForDay"
  /\ 1 \in GroupIds(habits)
  /\ Len(habits[1].phoneNumbers) = 2
  /\ Includes(habits[1].completedDays, last.day[1])
  /\ ~Includes(habits[1].failedDays, last.day[1])
  /\ habits[1].currentStreak > 0
  /\ habits[1].updatedAt = MaxNow

-----------------------------------------------------------------------------
(* finalizeGroupHabitsForDay: frame *)

\* C25: finalizeGroupHabitsForDay(D) adds and removes no habit and changes no
\* field of a SoloHabit or of a GroupHabit with isActive = false.
C25_FinalizeFrame ==
  [][(IsCallStep /\ last'.op = "finalizeGroupHabitsForDay")
       => /\ DOMAIN habits' = DOMAIN habits
          /\ \A k \in DOMAIN habits :
               (~IsGroupHabit(habits[k]) \/ ~habits[k].isActive)
                 => habits'[k] = habits[k]]_vars

\* finalizeGroupHabitsForDay has failed a day of an active group, in a
\* collection that also holds a SoloHabit and a soft-deleted GroupHabit
C25_Witness ==
  /\ last.op = "finalizeGroupHabitsForDay"
  /\ \E k \in DOMAIN habits : ~IsGroupHabit(habits[k])
  /\ \E k \in GroupIds(habits) :
       ~habits[k].isActive /\ ~Includes(habits[k].failedDays, last.day[1])
  /\ \E k \in GroupIds(habits) :
       habits[k].isActive /\ Includes(habits[k].failedDays, last.day[1])

-----------------------------------------------------------------------------
(* unmark of a day that is not completed *)

\* C26: unmarking a day that is not in completedDays leaves completedDays,
\* currentStreak and daysPerWeekDone of the habit, solo or group, as they were.
C26_UnmarkAbsentIsNoOp ==
  [][\A k \in DOMAIN habits :
       ( /\ IsCallStep
         /\ last'.op = "unmarkHabitAsCompleted"
         /\ last'.id = k
         /\ ~Includes(habits[k].completedDays, today) )
       => /\ habits'[k].completedDays = habits[k].completedDays
          /\ habits'[k].currentStreak = habits[k].currentStreak
          /\ habits'[k].daysPerWeekDone = habits[k].daysPerWeekDone]_vars

-----------------------------------------------------------------------------
(* currentStreak as a derived value *)

\* the failedDays of a habit; a SoloHabit has none
FailedOf(h) == IF IsGroupHabit(h) THEN h.failedDays ELSE <<>>

\* C27 as stated: after every operation, currentStreak of every habit equals
\* the value the streak algorithm yields for its completedDays and the
\* current day.
C27_StreakIsRecomputation ==
  [][IsCallStep =>
       \A k \in DOMAIN habits' :
         habits'[k].currentStreak = StreakOf(habits'[k].completedDays, today, tz)]_vars

\* C27 amended: an operation leaves currentStreak at 0 when it has failed a
\* day of the group, at the streak algorithm's value for the new completedDays
\* and the current day when it is an unmark or has changed completedDays,
\* and at its old value otherwise.
C27_StreakRecomputedOrReset ==
  [][IsCallStep =>
       \A k \in DOMAIN habits :
         LET h == habits[k]
             g == habits'[k]
         IN g.currentStreak =
              IF FailedOf(g) # FailedOf(h) THEN 0
              ELSE IF \/ last'.op = "unmarkHabitAsCompleted" /\ last'.id = k
                      \/ g.completedDays # h.completedDays
                   THEN StreakOf(g.completedDays, today, tz)
                   ELSE h.currentStreak]_vars

\* the last check-in of a two-member group has completed today after
\* yesterday, and the streak was recomputed to 2
C27_Witness ==
  /\ 1 \in GroupIds(habits)
  /\ last.op = "markGroupMemberCompleted" /\ last.ret = "habit"
  /\ Len(habits[1].phoneNumbers) = 2
  /\ Includes(habits[1].completedDays, today)
  /\ Includes(habits[1].completedDays, today - 1)
  /\ habits[1].failedDays = <<>>
  /\ habits[1].currentStreak = 2
  /\ habits[1].updatedAt = now

-----------------------------------------------------------------------------
(* daysPerWeekDone as a derived value *)

\* C28: in every state, also after the day or the week has changed with no
\* mark or unmark since, daysPerWeekDone is the number of days from the
\* current week's Monday up to and including today that are in
\* completedDays, and lies between 0 and 7.
C28_WeeklyCountIsCurrent ==
  \A k \in DOMAIN habits :
    /\ habits[k].daysPerWeekDone =
         Cardinality({d \in MondayOf(today)..today : Includes(habits[k].completedDays, d)})
    /\ habits[k].daysPerWeekDone \in 0..7

-----------------------------------------------------------------------------
(* RangeSpec: one call of the estimator per behaviour, over habit texts that
   reach every keyword family and every value of the two optional settings *)

\* habit texts by the families they match: the easy family or any subset of
\* the three complexity families, each valence family, each friction family
FamilyActions ==
  {"drink water", "Drink Water", "vitamin", "floss tax", "stretch budget",
   "nap", "read", "walk", "swim", "walk swim", "tax swim", "cold plunge",
   "cardio", "gym", "yoga class", "cook", "walk cook", "laundry",
   "revise", "study", "lift cook", "lift revise", "cook revise",
   "cook, study, go to", "lift cook revise", "gym laundry study"}

\* contextStability and whyType: unspecified or any of their three values
AllContextArgs == {<<>>, <<"stable">>, <<"mixed">>, <<"chaotic">>}
AllWhyArgs == {<<>>, <<"identity">>, <<"outcome">>, <<"mixed">>}

RangeArgs ==
  [habitAction : FamilyActions, contextStability : AllContextArgs, whyType : AllWhyArgs]

\* the first call of computeAutopilotETA of a behaviour
EstimateOnce(args) == out = NoOutput /\ Estimate(args)

RangeInit == Init

RangeNext ==
  \/ \E args \in RangeArgs : EstimateOnce(args)
  \/ Tick /\ UNCHANGED <<calls, resolved, out, loads>>

RangeSpec == RangeInit /\ [][RangeNext]_vars

\* the metrics a result reports
MetricsOf(r) ==
  [complexity |-> r.breakdown.complexity,
   emotionalValence |-> r.breakdown.emotionalValence,
   environmentalFriction |-> r.breakdown.environmentalFriction,
   contextStability |-> r.breakdown.contextStability,
   whyFactor |-> r.breakdown.whyFactor]

\* C29: whatever families the text matches and whatever contextStability and
\* whyType are, the result's recommendedRange is the range of its difficulty
\* (tiny 18-30, normal 30-66, stretch 66-120), its position lies in
\* [0.25, 0.75], and recommendedDays is an integer inside the range equal to
\* round(rangeLow + (rangeHigh - rangeLow) * position).
C29_DaysInsideRange ==
  out.op = "computeAutopilotETA" =>
    LET r == out.result
        lo == r.recommendedRange[1]
        hi == r.recommendedRange[2]
        position == r.breakdown.position
    IN /\ r.difficulty \in {"tiny", "normal", "stretch"}
       /\ r.recommendedRange = (CASE r.difficulty = "tiny" -> <<18, 30>>
                                  [] r.difficulty = "normal" -> <<30, 66>>
                                  [] r.difficulty = "stretch" -> <<66, 120>>)
       /\ 2500 <= position /\ position <= 7500
       /\ r.recommendedDays \in Int
       /\ lo <= r.recommendedDays /\ r.recommendedDays <= hi
       /\ 10000 * r.recommendedDays - 5000 <= lo * 10000 + (hi - lo) * position
       /\ lo * 10000 + (hi - lo) * position < 10000 * r.recommendedDays + 5000

\* the estimator has returned a stretch habit whose position was cut down to
\* 0.75, with 66 + 54 * 0.75 = 106.5 rounded to 107
C29_Witness ==
  /\ out.op = "computeAutopilotETA"
  /\ out.args.contextStability = <<"chaotic">>
  /\ out.args.whyType = <<"outcome">>
  /\ RawPosition(MetricsOf(out.result)) > 7500
  /\ out.result.breakdown.position = 7500
  /\ out.result.difficulty = "stretch"
  /\ out.result.recommendedDays = 107

-----------------------------------------------------------------------------
(* Promotion of a day every member has checked in for *)

\* C30: in every state reached by markMemberCompleted, addMember,
\* removeMember and finalizeDay, a day that every current member of a group
\* with at least one member has in their record, and that is not in
\* failedDays, is in the group's completedDays.
C30_AllCheckedInIsCompleted ==
  \A k \in GroupIds(habits) : \A D \in Days :
    ( /\ Len(habits[k].phoneNumbers) >= 1
      /\ \A p \in ElemsOf(habits[k].phoneNumbers) : Includes(MemberDays(habits[k], p), D)
      /\ ~Includes(habits[k].failedDays, D) )
    => Includes(habits[k].completedDays, D)

====
